---- MODULE Spec2Model ----
(***************************************************************************)
(* Model of the seed-search session of src/src/main.rs: one websocket      *)
(* connection, its command pump (Find, Stop), the worker threads that      *)
(* share the atomic seed cursor, the FindState completion tracker behind   *)
(* its mutex, the unbounded mpsc channel and the event pump that turns     *)
(* the workers' messages into outgoing frames.                             *)
(***************************************************************************)
EXTENDS Integers, Sequences, FiniteSets, TLC

(***************************************************************************)
(* Bounds of the model.                                                    *)
(***************************************************************************)
\* BATCH_SIZE is 200 in the source (main.rs:180); the model runs the same
\* loop with a small batch so that several batches fit in a small range.
BATCH_SIZE == 2
\* Seed ranges of a Find are [1, end) with end \in 0..MaxEnd.
MaxEnd == 4
\* The clock is read in ticks 0..MaxTime, TicksPerSec ticks to the second.
MaxTime == 4
TicksPerSec == 2
\* A recorded list of the tracker specification has at most MaxLen seeds.
MaxLen == 2
\* batches followed after the cursor has wrapped
MaxWrapped == 1

\* i32 (range: (i32, i32), AtomicI32): two's complement, 32 bits.
MaxI32 == 2147483647
MinI32 == (-MaxI32) - 1

StartSet == {1}
EndSet == 0..MaxEnd
\* concurrency: i32, autosave: u64 (seconds); 60 s outlasts every run here.
ConcurrencySet == {-1, 0, 1, 2}
AutosaveSet == {0, 1, 60}
\* The worker threads a Find of these inputs can spawn.
Threads == 1..2

VARIABLES
    stopped,        \* the session's AtomicBool
    find,           \* the parameters of the accepted Find, or NoFind
    current_seed,   \* the AtomicI32 cursor
    state,          \* the FindState behind the mutex
    lock,           \* the thread that holds the FindState mutex, 0 if free
    worker,         \* per worker thread: pc, batch_start, batch_end, seed
    chan,           \* the unbounded mpsc channel, oldest message first
    pump,           \* the event pump task: pc and finished_threads
    sent,           \* the frames written to the websocket, in order
    clock,          \* the last reading of SystemTime::now(), in ticks
    evaluated,      \* history: how often find_stars ran on each seed
    stopIssued,     \* history: Stop was handled while the search ran
    notifyTimes,    \* history: clock readings at which add returned Some
    batch,          \* tracker specification: the list of seeds recorded
    snap,           \* tracker specification: FindState after the first pass
    replay,         \* tracker specification: phase and position
    session         \* the connection: websocket, command pump, Generate
                    \* tasks, and the searches accepted so far

tv == <<batch, snap, replay>>

\* What a step of a worker thread leaves alone besides the search's state.
ov == <<batch, snap, replay, session>>

vars == <<stopped, find, current_seed, state, lock, worker, chan, pump, sent,
          clock, evaluated, stopIssued, notifyTimes, batch, snap, replay,
          session>>

NoFind == [start |-> 0, end |-> 0, concurrency |-> 0, threads |-> 0,
           autosave |-> 0, hits |-> {}, created |-> 0, accepted |-> FALSE]

(***************************************************************************)
(* i32 arithmetic, wrapping as the release build does.                     *)
(***************************************************************************)
I32Add(a, b) ==
    IF b >= 0
    THEN IF a > MaxI32 - b THEN MinI32 + ((a - (MaxI32 - b)) - 1) ELSE a + b
    ELSE IF a < MinI32 - b THEN MaxI32 - (((MinI32 - b) - a) - 1) ELSE a + b

I32Sub(a, b) ==
    IF b = MinI32 THEN I32Add(I32Add(a, MaxI32), 1) ELSE I32Add(a, -b)

Min(a, b) == IF a <= b THEN a ELSE b

(***************************************************************************)
(* Messages.                                                               *)
(***************************************************************************)
\* InternalMessage and OutgoingMessage; from is the sending thread (0 for
\* the event pump), a tag the program does not carry.
ResultMsg(t, seed) ==
    [type |-> "Result", seed |-> seed, start |-> 0, end |-> 0, from |-> t]
ProgressMsg(t, s, e) ==
    [type |-> "Progress", seed |-> 0, start |-> s, end |-> e, from |-> t]
ThreadFinishedMsg(t) ==
    [type |-> "ThreadFinished", seed |-> 0, start |-> 0, end |-> 0, from |-> t]
DoneMsg(s, e) ==
    [type |-> "Done", seed |-> 0, start |-> s, end |-> e, from |-> 0]

(***************************************************************************)
(* FindState::add.                                                         *)
(***************************************************************************)
\* An advance that stops at the seed after the one recorded and leaves
\* pending as it is.
RemoveRun_StopsAtFirst(pending, e) == [e |-> e, pending |-> pending]

\* while self.pending_seeds.remove(&e) { e += 1; }
RECURSIVE RemoveRun(_, _)
RemoveRun(pending, e) ==
    IF e \in pending
    THEN RemoveRun(pending \ {e}, I32Add(e, 1))
    ELSE [e |-> e, pending |-> pending]

\* Mutant of as_secs: a started second counts as a whole one.
as_secs_RoundUp(ticks) == (ticks + (TicksPerSec - 1)) \div TicksPerSec

\* Duration::as_secs of now.duration_since(last_notify): whole seconds.
as_secs(ticks) == ticks \div TicksPerSec

\* A throttle test that asks for more than autosave whole seconds.
NotifyDue_Strict(st, now) == as_secs(now - st.last_notify) > st.autosave

\* now.duration_since(self.last_notify).unwrap().as_secs() >= self.autosave
NotifyDue(st, now) == as_secs(now - st.last_notify) >= st.autosave

\* Mutant of add: a notification leaves progress_start where it was.
add_KeepStart(st, seed, now) ==
    IF st.progress_end = seed
    THEN LET run == RemoveRun(st.pending_seeds, I32Add(st.progress_end, 1))
             adv == [st EXCEPT !.progress_end = run.e,
                               !.pending_seeds = run.pending]
         IN  IF NotifyDue(adv, now)
             THEN [st |-> [adv EXCEPT !.last_notify = now],
                   note |-> <<adv.progress_start, adv.progress_end>>]
             ELSE [st |-> adv, note |-> << >>]
    ELSE [st |-> [st EXCEPT !.pending_seeds = @ \cup {seed}],
          note |-> << >>]

\* Mutant of add: progress_start follows progress_end on every advance,
\* notified or not.
add_StartFollowsEnd(st, seed, now) ==
    IF st.progress_end = seed
    THEN LET run == RemoveRun(st.pending_seeds, I32Add(st.progress_end, 1))
             adv == [st EXCEPT !.progress_end = run.e,
                               !.pending_seeds = run.pending]
         IN  IF NotifyDue(adv, now)
             THEN [st |-> [adv EXCEPT !.last_notify = now,
                                      !.progress_start = adv.progress_end],
                   note |-> <<adv.progress_start, adv.progress_end>>]
             ELSE [st |-> [adv EXCEPT !.progress_start = adv.progress_end],
                   note |-> << >>]
    ELSE [st |-> [st EXCEPT !.pending_seeds = @ \cup {seed}],
          note |-> << >>]

\* add(seed) at clock reading now: the new FindState and the returned
\* Option<(i32, i32)>, << >> for None and <<start, end>> for Some.
add(st, seed, now) ==
    IF st.progress_end = seed
    THEN LET run == RemoveRun(st.pending_seeds, I32Add(st.progress_end, 1))
             adv == [st EXCEPT !.progress_end = run.e,
                               !.pending_seeds = run.pending]
         IN  IF NotifyDue(adv, now)
             THEN [st |-> [adv EXCEPT !.last_notify = now,
                                      !.progress_start = adv.progress_end],
                   note |-> <<adv.progress_start, adv.progress_end>>]
             ELSE [st |-> adv, note |-> << >>]
    ELSE [st |-> [st EXCEPT !.pending_seeds = @ \cup {seed}],
          note |-> << >>]

(***************************************************************************)
(* The initial state: the connection is accepted, no Find was received.    *)
(***************************************************************************)
IdleWorker == [pc |-> "none", batch_start |-> 0, batch_end |-> 0, seed |-> 0]

\* The connection after accept_async: the websocket is up (ws), the command
\* pump reads frames (reader), no Generate task runs.  History: searches
\* counts the Finds accepted, firstCancelled tells whether Stop was handled
\* during the search before the one under way, failedAt and cutAt hold the cursor at the first failed write and at
\* the malformed frame.  checked tells whether the build panics on integer
\* overflow (overflow-checks on, as in the dev profile) or wraps.
NewSession ==
    [ws |-> TRUE, reader |-> TRUE, generating |-> 0, generated |-> 0,
     searches |-> 0, firstCancelled |-> FALSE,
     failedAt |-> << >>, cutAt |-> << >>, checked |-> FALSE]

NewFindState(start, threads, autosave, now) ==
    [progress_start |-> start, progress_end |-> start,
     pending_seeds |-> {}, running |-> threads,
     autosave |-> autosave, last_notify |-> now]

Init ==
    /\ stopped = FALSE
    /\ find = NoFind
    /\ current_seed = 0
    /\ state = NewFindState(0, 0, 0, 0)
    /\ lock = 0
    /\ worker = [t \in Threads |-> IdleWorker]
    /\ chan = << >>
    /\ pump = [pc |-> "none", finished_threads |-> 0]
    /\ sent = << >>
    /\ clock = 0
    /\ evaluated = [s \in {} |-> 0]
    /\ stopIssued = FALSE
    /\ notifyTimes = << >>
    /\ batch = << >>
    /\ snap = NewFindState(0, 0, 0, 0)
    /\ replay = [phase |-> "off", next |-> 0]
    /\ session = NewSession

(***************************************************************************)
(* The command pump.  A Find is accepted when no search is under way.      *)
(***************************************************************************)
\* let threads = concurrency.min(end - start);
EffectiveThreads(concurrency, start, end) == Min(concurrency, I32Sub(end, start))

SearchRunning == find.accepted /\ pump.pc = "recv"

\* A Find handler that leaves the flag as the search before it left it.
FindSetup_KeepFlag(start, end, concurrency, autosave, hits) ==
    LET threads == EffectiveThreads(concurrency, start, end) IN
    /\ find' = [start |-> start, end |-> end, concurrency |-> concurrency,
                threads |-> threads, autosave |-> autosave, hits |-> hits,
                created |-> clock, accepted |-> TRUE]
    /\ current_seed' = start
    /\ state' = NewFindState(start, threads, autosave, clock)
    /\ UNCHANGED stopped
    /\ worker' = [t \in Threads |->
                    IF t <= threads
                    THEN [IdleWorker EXCEPT !.pc = "reserve"]
                    ELSE IdleWorker]
    /\ pump' = [pc |-> "recv", finished_threads |-> 0]
    /\ evaluated' = [s \in start..(end - 1) |-> 0]

\* IncomingMessage::Find: builds the cursor and the FindState, clears the
\* flag, spawns the workers, drops the sender and spawns the event pump.
FindSetup(start, end, concurrency, autosave, hits) ==
    LET threads == EffectiveThreads(concurrency, start, end) IN
    /\ find' = [start |-> start, end |-> end, concurrency |-> concurrency,
                threads |-> threads, autosave |-> autosave, hits |-> hits,
                created |-> clock, accepted |-> TRUE]
    /\ current_seed' = start
    /\ state' = NewFindState(start, threads, autosave, clock)
    /\ stopped' = FALSE
    /\ worker' = [t \in Threads |->
                    IF t <= threads
                    THEN [IdleWorker EXCEPT !.pc = "reserve"]
                    ELSE IdleWorker]
    /\ pump' = [pc |-> "recv", finished_threads |-> 0]
    /\ evaluated' = [s \in start..(end - 1) |-> 0]

\* The first Find of the session.
Find(start, end, concurrency, autosave, hits) ==
    /\ session.reader
    /\ ~find.accepted
    /\ FindSetup(start, end, concurrency, autosave, hits)
    /\ session' = [session EXCEPT !.searches = 1]
    /\ UNCHANGED <<lock, chan, sent, clock, stopIssued, notifyTimes, tv>>

\* IncomingMessage::Stop
Stop ==
    /\ session.reader
    /\ ~stopped
    /\ stopped' = TRUE
    /\ stopIssued' = (stopIssued \/ SearchRunning)
    /\ UNCHANGED <<find, current_seed, state, lock, worker, chan, pump, sent,
                   clock, evaluated, notifyTimes, ov>>

(***************************************************************************)
(* A worker thread (main.rs:174-224).                                      *)
(***************************************************************************)
Send(msg) == chan' = Append(chan, msg)

\* One more run of find_stars on seed.
Count(f, seed) ==
    IF seed \in DOMAIN f
    THEN [f EXCEPT ![seed] = @ + 1]
    ELSE [s \in DOMAIN f \cup {seed} |-> IF s = seed THEN 1 ELSE f[s]]

\* x + BATCH_SIZE in the closure of fetch_update leaves the i32 range.
CursorOverflows == current_seed > MaxI32 - BATCH_SIZE

\* The cursor has wrapped and stands below the range; the batches reserved
\* from there are followed for the first MaxWrapped of them.
Wrapped == current_seed < find.start
WrappedFollowed == current_seed < MinI32 + MaxWrapped * BATCH_SIZE

\* The closure of fetch_update panics on overflow in a build with
\* overflow checks: the thread unwinds, its sender is dropped and no
\* ThreadFinished is sent.
ReservePanic(t) ==
    /\ worker[t].pc = "reserve"
    /\ session.checked
    /\ CursorOverflows
    /\ worker' = [worker EXCEPT ![t].pc = "panicked"]
    /\ UNCHANGED <<stopped, find, current_seed, state, lock, chan, pump, sent,
                   clock, evaluated, stopIssued, notifyTimes, ov>>

\* Mutant of NextCursor: the cursor moves one seed short of a batch.
NextCursor_Short(x) == I32Add(x, BATCH_SIZE - 1)

\* The closure of fetch_update: |x| Some(x + BATCH_SIZE)
NextCursor(x) == I32Add(x, BATCH_SIZE)

\* Mutant of BatchEnd: the batch is not cut at the end of the range.
BatchEnd_NoClamp(batch_start) == I32Add(batch_start, BATCH_SIZE)

\* let batch_end = (batch_start + BATCH_SIZE).min(end);
BatchEnd(batch_start) == Min(I32Add(batch_start, BATCH_SIZE), find.end)

\* cs.fetch_update(..), batch_end, and the test batch_start >= end.
Reserve(t) ==
    /\ worker[t].pc = "reserve"
    /\ ~(session.checked /\ CursorOverflows)
    /\ Wrapped => WrappedFollowed
    /\ LET batch_start == current_seed
           batch_end == BatchEnd(batch_start)
       IN  /\ current_seed' = NextCursor(current_seed)
           /\ worker' = [worker EXCEPT ![t] =
                  IF batch_start >= find.end
                  THEN [@ EXCEPT !.pc = "finish", !.batch_start = batch_start,
                                 !.batch_end = batch_end]
                  ELSE [pc |-> "check", batch_start |-> batch_start,
                        batch_end |-> batch_end, seed |-> batch_start]]
    /\ UNCHANGED <<stopped, find, state, lock, chan, pump, sent, clock,
                   evaluated, stopIssued, notifyTimes, ov>>

\* for seed in batch_start..batch_end { if stop.load() { break; } ...
CheckStop(t) ==
    /\ worker[t].pc = "check"
    /\ worker' = [worker EXCEPT ![t].pc =
           IF worker[t].seed >= worker[t].batch_end \/ stopped
           THEN "lock" ELSE "eval"]
    /\ UNCHANGED <<stopped, find, current_seed, state, lock, chan, pump, sent,
                   clock, evaluated, stopIssued, notifyTimes, ov>>

\* g.seed = seed; find_stars; if !star_indexes.is_empty() { tx.send(Result) }
Evaluate(t) ==
    /\ worker[t].pc = "eval"
    /\ evaluated' = Count(evaluated, worker[t].seed)
    /\ IF worker[t].seed \in find.hits
       THEN Send(ResultMsg(t, worker[t].seed))
       ELSE UNCHANGED chan
    /\ worker' = [worker EXCEPT ![t].pc = "check",
                                ![t].seed = I32Add(@, 1)]
    /\ UNCHANGED <<stopped, find, current_seed, state, lock, pump, sent,
                   clock, stopIssued, notifyTimes, ov>>

\* let mut x = s.lock().unwrap();
Lock(t) ==
    /\ worker[t].pc = "lock"
    /\ lock = 0
    /\ lock' = t
    /\ worker' = [worker EXCEPT ![t].pc = "record",
                                ![t].seed = worker[t].batch_start]
    /\ UNCHANGED <<stopped, find, current_seed, state, chan, pump, sent,
                   clock, evaluated, stopIssued, notifyTimes, ov>>

\* A recording loop that starts after the first seed of the batch.
RecordedSeeds_SkipFirst(w) == (w.batch_start + 1)..(w.batch_end - 1)

\* The seeds the worker records for its batch: batch_start..batch_end.
RecordedSeeds(w) == {s \in w.batch_start..w.batch_end : s < w.batch_end}

\* SystemTime::now() in add: a reading not before the last one.  With
\* autosave = 0 the test `as_secs() >= autosave` holds at every reading, so
\* there the clock is left standing.
Readings == IF state.autosave = 0 THEN {clock} ELSE clock..MaxTime

\* if let Some((start, end)) = x.add(seed) { tx.send(Progress) }: one turn
\* of the loop under the mutex; add reads the clock when it advances.
Record(t) ==
    /\ worker[t].pc = "record"
    /\ lock = t
    /\ worker[t].seed \in RecordedSeeds(worker[t])
    /\ \E now \in (IF state.progress_end = worker[t].seed
                    THEN Readings ELSE {clock}) :
         LET r == add(state, worker[t].seed, now)
         IN  /\ clock' = now
             /\ state' = r.st
             /\ IF r.note # << >>
                THEN /\ Send(ProgressMsg(t, r.note[1], r.note[2]))
                     /\ notifyTimes' = Append(notifyTimes, clock')
                ELSE UNCHANGED <<chan, notifyTimes>>
    /\ worker' = [worker EXCEPT ![t].seed = I32Add(@, 1)]
    /\ UNCHANGED <<stopped, find, current_seed, lock, pump, sent, evaluated,
                   stopIssued, ov>>

\* The end of the block drops the guard.
Unlock(t) ==
    /\ worker[t].pc = "record"
    /\ lock = t
    /\ worker[t].seed \notin RecordedSeeds(worker[t])
    /\ lock' = 0
    /\ worker' = [worker EXCEPT ![t].pc = "recheck"]
    /\ UNCHANGED <<stopped, find, current_seed, state, chan, pump, sent,
                   clock, evaluated, stopIssued, notifyTimes, ov>>

\* An outer loop that does not test the flag after a batch.
Recheck_IgnoresStop(t) ==
    /\ worker[t].pc = "recheck"
    /\ worker' = [worker EXCEPT ![t].pc = "reserve"]
    /\ UNCHANGED <<stopped, find, current_seed, state, lock, chan, pump, sent,
                   clock, evaluated, stopIssued, notifyTimes, ov>>

\* if stop.load(Ordering::SeqCst) { break; }
Recheck(t) ==
    /\ worker[t].pc = "recheck"
    /\ worker' = [worker EXCEPT ![t].pc =
           IF stopped THEN "finish" ELSE "reserve"]
    /\ UNCHANGED <<stopped, find, current_seed, state, lock, chan, pump, sent,
                   clock, evaluated, stopIssued, notifyTimes, ov>>

\* let _ = tx.send(InternalMessage::ThreadFinished); the thread ends and
\* drops its sender.
Finish(t) ==
    /\ worker[t].pc = "finish"
    /\ Send(ThreadFinishedMsg(t))
    /\ worker' = [worker EXCEPT ![t].pc = "done"]
    /\ UNCHANGED <<stopped, find, current_seed, state, lock, pump, sent,
                   clock, evaluated, stopIssued, notifyTimes, ov>>

(***************************************************************************)
(* The event pump (main.rs:233-265).                                       *)
(***************************************************************************)
\* Mutant of PumpRecv: Done is sent at the first ThreadFinished.
PumpRecv_DoneOnFirst ==
    /\ pump.pc = "recv"
    /\ chan # << >>
    /\ LET msg == Head(chan) IN
       /\ chan' = Tail(chan)
       /\ IF msg.type \in {"Result", "Progress"}
          THEN /\ sent' = Append(sent, [msg EXCEPT !.from = 0])
               /\ UNCHANGED pump
          ELSE /\ lock = 0
               /\ sent' = Append(sent, DoneMsg(state.progress_start,
                                               state.progress_end))
               /\ pump' = [pc |-> "ended",
                           finished_threads |-> pump.finished_threads + 1]
    /\ UNCHANGED <<stopped, find, current_seed, state, lock, worker, clock,
                   evaluated, stopIssued, notifyTimes, ov>>

\* let _ = w.lock().await.send(Message::Text(output)).await: the frame is
\* written when the websocket is up; an error of send is dropped.
WsSend(frame) ==
    IF session.ws
    THEN /\ sent' = Append(sent, frame)
         /\ UNCHANGED session
    ELSE /\ UNCHANGED sent
         /\ session' = [session EXCEPT !.failedAt =
                            IF @ = << >> THEN <<current_seed>> ELSE @]

\* Some(msg) = rx.recv().await, and the match on msg.
PumpRecv ==
    /\ pump.pc = "recv"
    /\ chan # << >>
    /\ LET msg == Head(chan) IN
       /\ chan' = Tail(chan)
       /\ IF msg.type = "Result"
          THEN /\ WsSend([msg EXCEPT !.from = 0])
               /\ UNCHANGED pump
          ELSE IF msg.type = "Progress"
          THEN /\ WsSend([msg EXCEPT !.from = 0])
               /\ UNCHANGED pump
          ELSE LET n == pump.finished_threads + 1 IN
               IF n = find.threads
               THEN /\ lock = 0
                    /\ WsSend(DoneMsg(state.progress_start,
                                      state.progress_end))
                    /\ pump' = [pc |-> "ended", finished_threads |-> n]
               ELSE /\ pump' = [pump EXCEPT !.finished_threads = n]
                    /\ UNCHANGED <<sent, session>>
    /\ UNCHANGED <<stopped, find, current_seed, state, lock, worker, clock,
                   evaluated, stopIssued, notifyTimes, tv>>

\* rx.recv() returns None: the channel is empty and every sender is dropped
\* (the original by drop(tx), each clone when its thread ends).
SendersDropped ==
    \A t \in Threads : worker[t].pc \in {"none", "done", "panicked"}

PumpClosed ==
    /\ pump.pc = "recv"
    /\ chan = << >>
    /\ SendersDropped
    /\ pump' = [pump EXCEPT !.pc = "ended"]
    /\ UNCHANGED <<stopped, find, current_seed, state, lock, worker, chan,
                   sent, clock, evaluated, stopIssued, notifyTimes, ov>>

(***************************************************************************)
(* The specification.                                                      *)
(***************************************************************************)
WorkerStep(t) ==
    \/ Reserve(t)
    \/ CheckStop(t)
    \/ Evaluate(t)
    \/ Lock(t)
    \/ Record(t)
    \/ Unlock(t)
    \/ Recheck(t)
    \/ Finish(t)

\* The seeds with a non-empty find_stars output: none, or the odd seeds.
HitSets(start, end) ==
    {{}, {s \in start..(end - 1) : s % 2 = 1}}

FindAny ==
    \E start \in StartSet, end \in EndSet, concurrency \in ConcurrencySet,
       autosave \in AutosaveSet :
        \E hits \in HitSets(start, end) :
            Find(start, end, concurrency, autosave, hits)

Next ==
    \/ FindAny
    \/ Stop
    \/ \E t \in Threads : WorkerStep(t)
    \/ PumpRecv
    \/ PumpClosed

Spec == Init /\ [][Next]_vars

TypeOK ==
    /\ stopped \in BOOLEAN
    /\ lock \in {0} \cup Threads
    /\ clock \in 0..MaxTime
    /\ pump.pc \in {"none", "recv", "ended"}

(***************************************************************************)
(* The tracker on its own: a FindState is brought to some state by calls   *)
(* of add, a list of seeds is recorded as the worker's loop records a      *)
(* batch (main.rs:210-214), and then the same list is recorded again.      *)
(***************************************************************************)
TrackerSeeds == 0..MaxEnd

TrackerInit ==
    /\ stopped = FALSE
    /\ find = NoFind
    /\ current_seed = 0
    /\ \E start \in StartSet, autosave \in AutosaveSet :
         state = NewFindState(start, 1, autosave, 0)
    /\ lock = 0
    /\ worker = [t \in Threads |-> IdleWorker]
    /\ chan = << >>
    /\ pump = [pc |-> "none", finished_threads |-> 0]
    /\ sent = << >>
    /\ clock = 0
    /\ evaluated = [s \in {} |-> 0]
    /\ stopIssued = FALSE
    /\ notifyTimes = << >>
    /\ batch = << >>
    /\ snap = NewFindState(0, 0, 0, 0)
    /\ replay = [phase |-> "build", next |-> 1]
    /\ session = NewSession

TrackerUnchanged ==
    UNCHANGED <<stopped, find, current_seed, lock, worker, chan, pump, sent,
                clock, evaluated, stopIssued, notifyTimes, session>>

\* x.add(seed) before the list: any call brings the tracker to a state.
Build(seed) ==
    /\ replay.phase = "build"
    /\ state' = add(state, seed, clock).st
    /\ UNCHANGED <<batch, snap, replay>>
    /\ TrackerUnchanged

\* x.add(seed) for the next seed of the list, first pass.
RecordFirst(seed) ==
    /\ replay.phase \in {"build", "first"}
    /\ Len(batch) < MaxLen
    /\ batch' = Append(batch, seed)
    /\ state' = add(state, seed, clock).st
    /\ replay' = [replay EXCEPT !.phase = "first"]
    /\ UNCHANGED snap
    /\ TrackerUnchanged

\* The first pass is over: the tracker as it stands is kept for comparison.
StartSecond ==
    /\ replay.phase = "first"
    /\ snap' = state
    /\ replay' = [phase |-> "second", next |-> 1]
    /\ UNCHANGED <<state, batch>>
    /\ TrackerUnchanged

\* x.add(seed) for the next seed of the same list, second pass.
RecordSecond ==
    /\ replay.phase = "second"
    /\ replay.next <= Len(batch)
    /\ state' = add(state, batch[replay.next], clock).st
    /\ replay' = [replay EXCEPT !.next = @ + 1]
    /\ UNCHANGED <<batch, snap>>
    /\ TrackerUnchanged

TrackerNext ==
    \/ \E seed \in TrackerSeeds : Build(seed)
    \/ \E seed \in TrackerSeeds : RecordFirst(seed)
    \/ StartSecond
    \/ RecordSecond

TrackerSpec == TrackerInit /\ [][TrackerNext]_vars

\* The worker threads run and the event pump task is polled: a step that
\* stays possible is taken.
FairSpec ==
    /\ Spec
    /\ \A t \in Threads : WF_vars(WorkerStep(t))
    /\ WF_vars(PumpRecv)
    /\ WF_vars(PumpClosed)

(***************************************************************************)
(* The session when the connection breaks.  Disconnect: the peer goes      *)
(* away, the read stream ends and try_for_each returns, and every later    *)
(* write to the sink fails.  Malformed: a non-empty frame that is not an   *)
(* IncomingMessage makes serde_json::from_str(..).unwrap() panic in the    *)
(* command pump; the sink is also held by the event pump and stays up.     *)
(* Neither touches the flag, and the worker threads hold their own clones  *)
(* of it.                                                                  *)
(***************************************************************************)
SessionUnchanged ==
    UNCHANGED <<stopped, find, current_seed, state, lock, worker, chan, pump,
                sent, clock, evaluated, stopIssued, notifyTimes, tv>>

Disconnect ==
    /\ session.ws
    /\ session' = [session EXCEPT !.ws = FALSE, !.reader = FALSE]
    /\ SessionUnchanged

Malformed ==
    /\ session.reader
    /\ session' = [session EXCEPT
                      !.reader = FALSE,
                      !.cutAt = IF SearchRunning THEN <<current_seed>> ELSE @]
    /\ SessionUnchanged

\* Searches of every range and thread count with the throttle off.
FindUnthrottled ==
    \E start \in StartSet, end \in EndSet, concurrency \in ConcurrencySet :
      \E hits \in HitSets(start, end) :
        Find(start, end, concurrency, 0, hits)

FailNext ==
    \/ FindUnthrottled
    \/ Stop
    \/ \E t \in Threads : WorkerStep(t)
    \/ PumpRecv
    \/ PumpClosed
    \/ Disconnect
    \/ Malformed

FailSpec == Init /\ [][FailNext]_vars

(***************************************************************************)
(* A session with a second search.  The second Find is handled once the    *)
(* event pump of the first search has ended; the handler builds a new      *)
(* cursor, a new FindState and a new channel, and stores false into the    *)
(* flag before it spawns the workers.  sent, evaluated, stopIssued and     *)
(* notifyTimes are the history of the search under way and start afresh.   *)
(***************************************************************************)
MaxSearches == 2
SecondStartSet == {0}

FindAgain(start, end, concurrency, autosave, hits) ==
    /\ session.reader
    /\ find.accepted
    /\ pump.pc = "ended"
    /\ session.searches < MaxSearches
    /\ FindSetup(start, end, concurrency, autosave, hits)
    /\ session' = [session EXCEPT !.searches = @ + 1,
                                  !.firstCancelled = stopIssued]
    /\ sent' = << >>
    /\ stopIssued' = FALSE
    /\ notifyTimes' = << >>
    /\ UNCHANGED <<lock, chan, clock, tv>>

\* The first search: one or two workers on the whole range, the throttle
\* off.
TwoFirstFind ==
    \E start \in StartSet, concurrency \in {1, 2} :
      \E hits \in HitSets(start, MaxEnd) :
        Find(start, MaxEnd, concurrency, 0, hits)

\* The second search: a range of its own, every thread count.
TwoSecondFind ==
    \E start \in SecondStartSet, end \in EndSet,
       concurrency \in ConcurrencySet :
      \E hits \in HitSets(start, end) :
        FindAgain(start, end, concurrency, 0, hits)

TwoNext ==
    \/ TwoFirstFind
    \/ TwoSecondFind
    \/ Stop
    \/ \E t \in Threads : WorkerStep(t)
    \/ PumpRecv
    \/ PumpClosed

TwoSpec == Init /\ [][TwoNext]_vars

(***************************************************************************)
(* Generate.  The handler spawns a blocking task and returns; the task     *)
(* builds the galaxy and writes one frame through the sink the event pump  *)
(* writes through.  Neither step reads or writes the flag, the cursor, the *)
(* FindState or the channel.                                               *)
(***************************************************************************)
MaxGenerate == 1

GalaxyMsg == [type |-> "Galaxy", seed |-> 0, start |-> 0, end |-> 0, from |-> 0]

\* A Generate handler that also stores true into the flag.
Generate_SetsFlag ==
    /\ session.reader
    /\ session.generating + session.generated < MaxGenerate
    /\ session' = [session EXCEPT !.generating = @ + 1]
    /\ stopped' = TRUE
    /\ UNCHANGED <<find, current_seed, state, lock, worker, chan, pump, sent,
                   clock, evaluated, stopIssued, notifyTimes, tv>>

\* IncomingMessage::Generate: tokio::task::spawn_blocking(..).
Generate ==
    /\ session.reader
    /\ session.generating + session.generated < MaxGenerate
    /\ session' = [session EXCEPT !.generating = @ + 1]
    /\ SessionUnchanged

\* The blocking task: create_galaxy, then w.lock().await.send(..).await.
GalaxySend ==
    /\ session.generating > 0
    /\ session' = [session EXCEPT !.generating = @ - 1, !.generated = @ + 1]
    /\ sent' = IF session.ws THEN Append(sent, GalaxyMsg) ELSE sent
    /\ UNCHANGED <<stopped, find, current_seed, state, lock, worker, chan,
                   pump, clock, evaluated, stopIssued, notifyTimes, tv>>

GenNext ==
    \/ FindUnthrottled
    \/ Generate
    \/ GalaxySend
    \/ Stop
    \/ \E t \in Threads : WorkerStep(t)
    \/ PumpRecv
    \/ PumpClosed

GenSpec == Init /\ [][GenNext]_vars

(***************************************************************************)
(* Searches at the top of the i32 range.  The cursor is an AtomicI32 and   *)
(* x + BATCH_SIZE is plain i32 addition: past i32::MAX it panics in a      *)
(* build with overflow checks and wraps to the bottom of the range in a    *)
(* build without.  The build is fixed when the first Find is handled.      *)
(***************************************************************************)
TopStartSet == {MaxI32 - 3}
TopEndSet == {MaxI32 - 1, MaxI32}

OverflowFind ==
    \E start \in TopStartSet, end \in TopEndSet, concurrency \in {1, 2},
       checked \in BOOLEAN :
      /\ session.reader
      /\ ~find.accepted
      /\ FindSetup(start, end, concurrency, 0, {})
      /\ session' = [session EXCEPT !.searches = 1, !.checked = checked]
      /\ UNCHANGED <<lock, chan, sent, clock, stopIssued, notifyTimes, tv>>

OverflowNext ==
    \/ OverflowFind
    \/ Stop
    \/ \E t \in Threads : WorkerStep(t)
    \/ \E t \in Threads : ReservePanic(t)
    \/ PumpRecv
    \/ PumpClosed

OverflowSpec == Init /\ [][OverflowNext]_vars

(***************************************************************************)
(* Views of the history used by the properties.                            *)
(***************************************************************************)
ProgressAndDone == SelectSeq(sent, LAMBDA m : m.type \in {"Progress", "Done"})
ProgressFrames == SelectSeq(sent, LAMBDA m : m.type = "Progress")
DoneFrames == SelectSeq(sent, LAMBDA m : m.type = "Done")
DoneSent == DoneFrames # << >>
TheDone == DoneFrames[1]
ResultIndexes(k) ==
    {i \in 1..Len(sent) : sent[i].type = "Result" /\ sent[i].seed = k}
SeedRange == find.start..(find.end - 1)
Spawned == {t \in Threads : worker[t].pc # "none"}
Max(a, b) == IF a >= b THEN a ELSE b

(***************************************************************************)
(* C1. The Progress frames and the Done frame of a search, in the order    *)
(* sent, tile the completed prefix: the first starts at range.start, each  *)
(* later one starts where the one before ended, starts and ends never      *)
(* decrease, and Done comes last.                                          *)
(***************************************************************************)
C1_FramesTile ==
    LET pd == ProgressAndDone IN
    /\ pd # << >> => pd[1].start = find.start
    /\ \A i \in 2..Len(pd) :
         /\ pd[i].start = pd[i - 1].end
         /\ pd[i].start >= pd[i - 1].start
         /\ pd[i].end >= pd[i - 1].end
         /\ pd[i - 1].type = "Progress"

\* Two workers, Done after two Progress frames, one of them reaching from
\* inside the first batch into the second.
C1_Witness ==
    /\ DoneSent
    /\ find.threads = 2
    /\ Len(ProgressFrames) >= 2
    /\ \E i \in 1..Len(ProgressFrames) :
         /\ find.start < ProgressFrames[i].start
         /\ ProgressFrames[i].start < find.start + BATCH_SIZE
         /\ find.start + BATCH_SIZE < ProgressFrames[i].end

(***************************************************************************)
(* C2. Every seed counted as completed (below progress_end or in pending)  *)
(* was evaluated by the matcher, so Done's end never passes a seed that    *)
(* was not evaluated.                                                      *)
(***************************************************************************)
C2_CountedSeedsEvaluated ==
    find.accepted =>
        /\ \A s \in SeedRange :
             (s < state.progress_end \/ s \in state.pending_seeds)
                 => evaluated[s] >= 1
        /\ DoneSent =>
             \A s \in SeedRange : evaluated[s] = 0 => TheDone.end <= s

(***************************************************************************)
(* C3. A search with a non-empty range during which Stop was not issued    *)
(* ends with Done, Done's end is range.end, and every seed of the range    *)
(* with a non-empty matcher output is in exactly one Result frame, sent    *)
(* before Done.  Stated of the search once its event pump has ended.       *)
(***************************************************************************)
C3_NoStopComplete ==
    /\ \A k \in SeedRange : Cardinality(ResultIndexes(k)) <= 1
    /\ (find.accepted /\ find.end > find.start /\ pump.pc = "ended"
            /\ ~stopIssued) =>
         /\ DoneSent
         /\ TheDone.end = find.end
         /\ sent[Len(sent)].type = "Done"
         /\ \A k \in SeedRange :
              k \in find.hits => Cardinality(ResultIndexes(k)) = 1

\* The same for the searches that spawn a worker: there it holds.
C3_CompleteWithWorkers ==
    (find.threads >= 1) => C3_NoStopComplete

\* Two workers, two matching seeds, no Stop, Done after both Results.
C3_Witness ==
    /\ DoneSent
    /\ ~stopIssued
    /\ find.threads = 2
    /\ Cardinality(find.hits) >= 2
    /\ \A k \in find.hits : Cardinality(ResultIndexes(k)) = 1

(***************************************************************************)
(* C4. A Find with end <= start spawns no worker and the event pump sends  *)
(* exactly one frame, Done {start, start}.                                 *)
(***************************************************************************)
C4_EmptyRangeDone ==
    (find.accepted /\ find.end <= find.start) =>
        /\ Spawned = {}
        /\ pump.pc = "ended" => sent = <<DoneMsg(find.start, find.start)>>

(***************************************************************************)
(* C5. When Stop is issued during a search with at least one worker, Done  *)
(* is still sent, once, after the ThreadFinished of every worker, and its  *)
(* end is at most range.end.                                               *)
(***************************************************************************)
C5_DoneSafe ==
    /\ Len(DoneFrames) <= 1
    /\ DoneSent =>
         /\ TheDone.end <= find.end
         /\ pump.finished_threads = find.threads
         /\ \A t \in Spawned : worker[t].pc = "done"
         /\ Cardinality(Spawned) = find.threads

C5_StopStillDone ==
    /\ []C5_DoneSafe
    /\ (stopIssued /\ find.threads >= 1) ~> DoneSent

\* A cancelled search of two workers that skipped a seed and sent Done.
C5_Witness ==
    /\ stopIssued
    /\ find.threads = 2
    /\ DoneSent
    /\ \E s \in SeedRange : evaluated[s] = 0

(***************************************************************************)
(* C6. No Result or Progress frame follows Done: a worker's messages are   *)
(* all ahead of its ThreadFinished in the channel, and Done is sent when   *)
(* every worker's ThreadFinished was received, the channel being empty.    *)
(***************************************************************************)
C6_NothingAfterDone ==
    /\ \A i \in 1..Len(sent) : sent[i].type = "Done" => i = Len(sent)
    /\ \A i \in 1..Len(chan) : \A j \in (i + 1)..Len(chan) :
         chan[i].type = "ThreadFinished" => chan[j].from # chan[i].from
    /\ \A i \in 1..Len(chan) : worker[chan[i].from].pc = "done" =>
         \E j \in i..Len(chan) :
             chan[j].type = "ThreadFinished" /\ chan[j].from = chan[i].from
    /\ DoneSent =>
         /\ chan = << >>
         /\ \A t \in Spawned : worker[t].pc = "done"

\* Done follows Result and Progress frames of two workers.
C6_Witness ==
    /\ DoneSent
    /\ find.threads = 2
    /\ \E i \in 1..Len(sent) : sent[i].type = "Result"
    /\ \E i \in 1..Len(sent) : sent[i].type = "Progress"

(***************************************************************************)
(* C7. As claimed: when no Progress frame was sent, Done has start = end   *)
(* (stated for the searches of the claim's example, those without Stop).   *)
(***************************************************************************)
C7_DoneStartIsEnd ==
    (DoneSent /\ ProgressFrames = << >> /\ ~stopIssued)
        => TheDone.start = TheDone.end

(***************************************************************************)
(* C7, amended. When no Progress frame was sent, Done's start is           *)
(* range.start and Done's end is the final completed-prefix bound          *)
(* (range.end when Stop was not issued).                                   *)
(***************************************************************************)
C7_DoneSpansWholePrefix ==
    (DoneSent /\ ProgressFrames = << >>) =>
        /\ TheDone.start = find.start
        /\ TheDone.end = state.progress_end
        /\ ~stopIssued => TheDone.end = find.end

\* autosave = 60, no Stop, no Progress: Done {start: range.start, end: range.end}.
C7_Witness ==
    /\ DoneSent
    /\ ProgressFrames = << >>
    /\ find.autosave = 60
    /\ ~stopIssued
    /\ TheDone.end > TheDone.start

(***************************************************************************)
(* C8. Two notifications of the tracker are at least autosave seconds      *)
(* apart on the clock add reads, and the first is at least autosave        *)
(* seconds after the FindState was created.                                *)
(***************************************************************************)
C8_Throttle ==
    /\ notifyTimes # << >> =>
         notifyTimes[1] - find.created >= find.autosave * TicksPerSec
    /\ \A i \in 2..Len(notifyTimes) :
         notifyTimes[i] - notifyTimes[i - 1] >= find.autosave * TicksPerSec

\* Two notifications under autosave = 1, from two workers.
C8_Witness ==
    /\ find.autosave = 1
    /\ find.threads = 2
    /\ Len(notifyTimes) >= 2

(***************************************************************************)
(* C9. For a Find with end > start the number of workers, and of           *)
(* ThreadFinished the pump waits for, is min(concurrency, end - start)     *)
(* clamped to at least 1, and the search ends with Done.                   *)
(***************************************************************************)
C9_ThreadsClamped ==
    (find.accepted /\ find.end > find.start) =>
        LET n == Max(1, Min(find.concurrency, find.end - find.start)) IN
        /\ find.threads = n
        /\ Cardinality(Spawned) = n
        /\ pump.pc = "ended" => DoneSent

(***************************************************************************)
(* C10. Recording a list of seeds a second time changes neither            *)
(* progress_end nor pending.                                               *)
(***************************************************************************)
C10_SecondPassNoChange ==
    (replay.phase = "second" /\ replay.next > Len(batch)) =>
        /\ state.progress_end = snap.progress_end
        /\ state.pending_seeds = snap.pending_seeds

(***************************************************************************)
(* C11. In a search cancelled by Stop, the end of Done is at or beyond the *)
(* end of every Progress frame sent, and every Result frame sent carries a *)
(* seed below the end of Done.                                             *)
(***************************************************************************)
C11_DoneCoversFrames ==
    (stopIssued /\ DoneSent) =>
        /\ \A i \in 1..Len(ProgressFrames) :
             ProgressFrames[i].end <= TheDone.end
        /\ \A i \in 1..Len(sent) :
             sent[i].type = "Result" => sent[i].seed < TheDone.end

\* Stop arrived while two workers ran, a Result and a Progress frame went
\* out, and the search ended with a seed of the range never evaluated.
C11_Witness ==
    /\ stopIssued
    /\ DoneSent
    /\ find.threads = 2
    /\ ProgressFrames # << >>
    /\ \E i \in 1..Len(sent) : sent[i].type = "Result"
    /\ \E s \in SeedRange : evaluated[s] = 0

(***************************************************************************)
(* C12. When a write of an outbound frame failed during a search while     *)
(* seeds of the range were still unreserved, the search is cancelled: the  *)
(* flag is set and the workers end with part of the range not evaluated.   *)
(***************************************************************************)
C12_SendFailureCancels ==
    (/\ find.threads >= 1
     /\ session.failedAt # << >>
     /\ session.failedAt[1] < find.end
     /\ \A t \in Spawned : worker[t].pc = "done")
        => /\ stopped
           /\ \E s \in SeedRange : evaluated[s] = 0

(***************************************************************************)
(* C13. When a malformed frame arrived during a search while seeds of the  *)
(* range were still unreserved, the search is cancelled: the flag is set   *)
(* and the workers end with part of the range not evaluated.               *)
(***************************************************************************)
C13_MalformedCancels ==
    (/\ find.threads >= 1
     /\ session.cutAt # << >>
     /\ session.cutAt[1] < find.end
     /\ \A t \in Spawned : worker[t].pc = "done")
        => /\ stopped
           /\ \E s \in SeedRange : evaluated[s] = 0

(***************************************************************************)
(* C14. A search started by a Find that follows the Done of a search       *)
(* cancelled by Stop is independent of it: while it runs, and until a Stop *)
(* of its own, the flag is false, so no worker reads a stale true; its     *)
(* cursor and                                                              *)
(* its tracker start at its own range.start, so its batches and its first  *)
(* Progress or Done frame start there; and without a Stop of its own its   *)
(* Done has end = its own range.end.                                       *)
(***************************************************************************)
C14_SecondSearchIndependent ==
    (session.searches >= 2 /\ session.firstCancelled) =>
        /\ (SearchRunning /\ ~stopIssued) => ~stopped
        /\ current_seed >= find.start
        /\ (current_seed - find.start) % BATCH_SIZE = 0
        /\ \A t \in Spawned :
             worker[t].pc \in {"check", "eval", "lock", "record", "recheck"}
                => /\ worker[t].batch_start >= find.start
                   /\ (worker[t].batch_start - find.start) % BATCH_SIZE = 0
        /\ state.progress_start >= find.start
        /\ ProgressAndDone # << >> =>
             ProgressAndDone[1].start = find.start
        /\ (~stopIssued /\ DoneSent) => TheDone.end = find.end

\* The first search was cancelled, the second ran two workers over a range
\* of more than one batch without a Stop and sent its Done.
C14_Witness ==
    /\ session.searches >= 2
    /\ session.firstCancelled
    /\ ~stopIssued
    /\ find.threads = 2
    /\ find.end > find.start + BATCH_SIZE
    /\ DoneSent
    /\ TheDone.end = find.end

(***************************************************************************)
(* C15. Handling Generate sends one galaxy frame and leaves the search     *)
(* alone: the steps of Generate change neither the cursor, the tracker,    *)
(* the flag, the workers, the channel nor the count of finished workers,   *)
(* the only frame they write is the galaxy, and the search ends with the   *)
(* Done it ends with otherwise: the tracker's prefix, closing the tiling   *)
(* of the Progress frames, with end = range.end when no Stop was handled.  *)
(***************************************************************************)
GalaxyFrames == SelectSeq(sent, LAMBDA m : m.type = "Galaxy")

C15_GenerateStep ==
    (session'.generating # session.generating) =>
        /\ UNCHANGED <<current_seed, state, stopped, worker, chan, pump,
                       find, lock>>
        /\ \/ sent' = sent
           \/ sent' = Append(sent, GalaxyMsg)

C15_SameDone ==
    /\ Len(GalaxyFrames) = session.generated
    /\ DoneSent =>
         LET pd == ProgressAndDone IN
         /\ Len(DoneFrames) = 1
         /\ TheDone = DoneMsg(state.progress_start, state.progress_end)
         /\ pd[1].start = find.start
         /\ \A i \in 2..Len(pd) : /\ pd[i].start = pd[i - 1].end
                                  /\ pd[i - 1].type = "Progress"
         /\ ~stopIssued => TheDone.end = find.end

C15_GenerateLeavesSearch == []C15_SameDone /\ [][C15_GenerateStep]_vars

\* Two workers; the galaxy frame went out between a frame of the search and
\* its Done.
C15_Witness ==
    /\ find.threads = 2
    /\ DoneSent
    /\ \E i, j, k \in 1..Len(sent) :
         /\ i < j
         /\ j < k
         /\ sent[i].type \in {"Result", "Progress"}
         /\ sent[j].type = "Galaxy"
         /\ sent[k].type = "Done"

(***************************************************************************)
(* C16 as stated. With autosave = 0, every non-empty batch a worker has    *)
(* recorded (in a search that is not cancelled) produced exactly one       *)
(* Progress notification, a batch recorded out of order included.  (With autosave = 0 the start of a notification  *)
(* is the seed whose add returned it.)                                     *)
(***************************************************************************)
ProgressNotes(lo, hi) ==
    Cardinality({i \in 1..Len(chan) :
                    chan[i].type = "Progress" /\ chan[i].start \in lo..(hi - 1)})
    + Cardinality({i \in 1..Len(sent) :
                    sent[i].type = "Progress" /\ sent[i].start \in lo..(hi - 1)})

C16_OnePerBatch ==
    \A t \in Threads :
        (/\ state.autosave = 0
         /\ ~stopIssued
         /\ worker[t].pc = "recheck"
         /\ worker[t].batch_start < worker[t].batch_end)
            => ProgressNotes(worker[t].batch_start, worker[t].batch_end) = 1

(***************************************************************************)
(* C16 amended. With autosave = 0, a Progress notification is produced     *)
(* each time a recorded seed equals progress_end, running from that seed   *)
(* to the new progress_end, and at no other time; a seed that does not     *)
(* equal progress_end goes to pending without a notification.  So a batch  *)
(* recorded in order produces one notification per seed and a batch        *)
(* recorded out of order produces none.                                    *)
(***************************************************************************)
C16_RecordStep ==
    \A t \in Threads :
        (/\ state.autosave = 0
         /\ worker[t].pc = "record"
         /\ worker'[t].seed # worker[t].seed)
            => IF state.progress_end = worker[t].seed
               THEN chan' = Append(chan, ProgressMsg(t, worker[t].seed,
                                                     state'.progress_end))
               ELSE /\ chan' = chan
                    /\ worker[t].seed \in state'.pending_seeds

C16_BatchNotes ==
    \A t \in Threads :
        (/\ state.autosave = 0
         /\ worker[t].pc = "recheck"
         /\ worker[t].batch_start < worker[t].batch_end)
            => ProgressNotes(worker[t].batch_start, worker[t].batch_end)
                 \in {0, worker[t].batch_end - worker[t].batch_start}

C16_OnePerAdvance == []C16_BatchNotes /\ [][C16_RecordStep]_vars

\* The second batch was recorded out of order without a notification, and
\* the first batch, recorded after it, produced one notification per seed.
C16_Witness ==
    /\ state.autosave = 0
    /\ ProgressNotes(find.start, find.start + BATCH_SIZE) = BATCH_SIZE
    /\ \E t \in Threads :
         /\ worker[t].pc = "recheck"
         /\ worker[t].batch_start = find.start + BATCH_SIZE
         /\ worker[t].batch_start < worker[t].batch_end
         /\ ProgressNotes(worker[t].batch_start, worker[t].batch_end) = 0

(***************************************************************************)
(* C17. In every state of a search over a range with start <= end:         *)
(* range.start <= progress_start <= progress_end <= range.end; every       *)
(* element of pending is greater than progress_end, so progress_end is not *)
(* in pending; and no step lowers progress_start or progress_end.          *)
(***************************************************************************)
C17_TrackerBounds ==
    (find.accepted /\ find.start <= find.end) =>
        /\ find.start <= state.progress_start
        /\ state.progress_start <= state.progress_end
        /\ state.progress_end <= find.end
        /\ \A p \in state.pending_seeds : p > state.progress_end
        /\ state.progress_end \notin state.pending_seeds

C17_TrackerMonotone ==
    (find.accepted /\ find' = find) =>
        /\ state'.progress_start >= state.progress_start
        /\ state'.progress_end >= state.progress_end

C17_TrackerInvariants == []C17_TrackerBounds /\ [][C17_TrackerMonotone]_vars

\* The second batch waits in pending while the first is being recorded:
\* the prefix has advanced past a seed that no notification has covered.
C17_Witness ==
    /\ find.threads = 2
    /\ state.pending_seeds # {}
    /\ find.start <= state.progress_start
    /\ state.progress_start < state.progress_end

(***************************************************************************)
(* C18. The batches held by different workers are disjoint, no seed is     *)
(* evaluated twice and no seed outside the range is evaluated; and when    *)
(* the workers of a search that was not cancelled have all ended, every    *)
(* seed of the range has been evaluated exactly once.                      *)
(***************************************************************************)
Holding == {t \in Threads :
              worker[t].pc \in {"check", "eval", "lock", "record", "recheck"}}
BatchOf(t) == RecordedSeeds(worker[t])

C18_BatchesPartition ==
    /\ \A t, u \in Holding : t # u => BatchOf(t) \cap BatchOf(u) = {}
    /\ \A t \in Holding : BatchOf(t) \subseteq SeedRange
    /\ DOMAIN evaluated \subseteq SeedRange
    /\ \A s \in DOMAIN evaluated : evaluated[s] <= 1
    /\ (/\ find.threads >= 1
        /\ ~stopIssued
        /\ ~stopped
        /\ \A t \in Spawned : worker[t].pc = "done")
          => \A s \in SeedRange : evaluated[s] = 1

\* Two workers hold the two batches of the range at the same time and each
\* has evaluated the first seed of its batch.
C18_Witness ==
    \E t, u \in Holding :
        /\ t # u
        /\ BatchOf(t) # {}
        /\ BatchOf(u) # {}
        /\ evaluated[worker[t].batch_start] = 1
        /\ evaluated[worker[u].batch_start] = 1

(***************************************************************************)
(* C19. While the flag stays set after Stop, no worker begins the          *)
(* evaluation of a seed (a worker that had passed the test of the flag for *)
(* a seed finishes that one), no worker comes back to the reservation, so  *)
(* each worker reserves at most the one batch it was about to reserve, and *)
(* every worker goes on to send ThreadFinished and end.                    *)
(***************************************************************************)
C19_StopStep ==
    (stopped /\ stopped') =>
        \A t \in Threads :
            /\ worker'[t].pc = "eval" => worker[t].pc = "eval"
            /\ worker'[t].pc = "reserve" => worker[t].pc = "reserve"
            /\ (worker[t].pc # "reserve" /\ worker'[t] # worker[t])
                  => current_seed' = current_seed

C19_AllFinished == \A t \in Threads : worker[t].pc \in {"none", "done"}

C19_StopWindsDown ==
    /\ [][C19_StopStep]_vars
    /\ (stopIssued ~> C19_AllFinished)

\* The flag is set while one worker is inside the evaluation of a seed and
\* the other is about to reserve a batch.
C19_Witness ==
    /\ stopIssued
    /\ stopped
    /\ \E t, u \in Threads :
         /\ worker[t].pc = "eval"
         /\ worker[u].pc = "reserve"

(***************************************************************************)
(* C20. For ranges that end within a few batches of i32::MAX the cursor    *)
(* arithmetic does not overflow: every reserved batch_start is at or above *)
(* range.start, no seed outside the range is evaluated,                    *)
(* no worker dies, and when the event pump of a search with workers and no *)
(* Stop has ended, Done was sent with end = range.end.                     *)
(***************************************************************************)
C20_NoWrap ==
    find.accepted =>
        /\ \A t \in Holding : worker[t].batch_start >= find.start
        /\ DOMAIN evaluated \subseteq SeedRange
        /\ \A t \in Threads : worker[t].pc # "panicked"
        /\ (pump.pc = "ended" /\ find.threads >= 1 /\ ~stopIssued) =>
              /\ DoneSent
              /\ TheDone.end = find.end

====
